---- MODULE Spec2Model ----
(***************************************************************************)
(* youtube-upload-rs: the upload scheduler (parse_duration,                *)
(* generate_schedule), the token lifecycle of YouTubeUploader             *)
(* (authenticate, refresh_token, perform_oauth_flow, store_tokens,         *)
(* load_tokens) and the run of main around them.                           *)
(*                                                                         *)
(* Time is counted in seconds.  A string is a sequence of one-character    *)
(* strings.  Option<T> is a record [some, v].  A Result is a record with   *)
(* an ok field.                                                            *)
(***************************************************************************)
EXTENDS Integers, Sequences, FiniteSets, TLC

(***************************************************************************)
(* Bounds of the model                                                     *)
(***************************************************************************)
\* clock readings (Utc::now()) range over 0..MaxClock
MaxClock == 1
\* largest number of video files of a run
MaxVideos == 2
\* number of process instances the state is kept for
NumInst == 2
\* longest timestamp-file / interval text that is enumerated
MaxLen == 3
\* stand-in for the largest second count chrono's DateTime<Utc> represents
MaxTimestamp == 1000000
\* stand-in for i64::MAX, above MaxTimestamp and MaxDuration as in the build
MaxI64 == 100000000
\* stand-in for the largest second count chrono's Duration represents
MaxDuration == 10000000

Inst == 1..NumInst

(***************************************************************************)
(* Option and Result values                                                *)
(***************************************************************************)
NoneI == [some |-> FALSE, v |-> 0]
NoneS == [some |-> FALSE, v |-> ""]
NoneB == [some |-> FALSE, v |-> FALSE]
NoneL == [some |-> FALSE, v |-> <<>>]
Some(x) == [some |-> TRUE, v |-> x]

(***************************************************************************)
(* chrono::Duration constructors, in seconds                               *)
(***************************************************************************)
seconds(n) == n
minutes(n) == n * 60
hours(n) == n * 3600
days(n) == n * 86400

(***************************************************************************)
(* StoredTokens and the credential file ~/.youtube_tokens.json             *)
(***************************************************************************)
StoredTokens(a, r, e) == [access_token |-> a, refresh_token |-> r, expires_at |-> e]

\* String::new(), and the value of a StoredTokens local that was never bound
EmptyTokens == StoredTokens("", NoneS, NoneI)

\* the file holds a serialized StoredTokens, or is missing, or holds bytes
\* that serde_json::from_str::<StoredTokens> rejects
FileOf(t) == [kind |-> "tokens", tokens |-> t]
FileMissing == [kind |-> "missing", tokens |-> EmptyTokens]
FileMalformed == [kind |-> "malformed", tokens |-> EmptyTokens]

Ok(t) == [ok |-> TRUE, tokens |-> t]
Err == [ok |-> FALSE, tokens |-> EmptyTokens]

\* load_tokens: fs::read_to_string(path)? then serde_json::from_str(..)?
load_tokens(file, readable) ==
    IF ~readable \/ file.kind = "missing" THEN Err
    ELSE IF file.kind = "malformed" THEN Err
    ELSE Ok(file.tokens)

\* store_tokens: fs::write(path, to_string_pretty(tokens))?.  fs::write
\* creates or truncates the file, then writes: outcome "ok" leaves the new
\* content, "open_failed" leaves the file as it was, "write_failed" leaves
\* a truncated file that no longer deserializes.
WriteOutcomes == {"ok", "open_failed", "write_failed"}
store_tokens(file, tokens, outcome) ==
    CASE outcome = "ok" -> [ok |-> TRUE, file |-> FileOf(tokens)]
      [] outcome = "open_failed" -> [ok |-> FALSE, file |-> file]
      [] OTHER -> [ok |-> FALSE, file |-> FileMalformed]

(***************************************************************************)
(* authenticate: the reuse test, and refresh_token                         *)
(***************************************************************************)
\* the reuse test with the margin taken in hours
TokenStillValid_HoursMargin(tokens, nowv) ==
    /\ tokens.expires_at.some
    /\ tokens.expires_at.v > nowv + hours(5)

\* the reuse test taking a token that expires at the margin itself
TokenStillValid_AtMargin(tokens, nowv) ==
    /\ tokens.expires_at.some
    /\ tokens.expires_at.v >= nowv + minutes(5)

\* if let Some(expires_at) = tokens.expires_at
\*     { if expires_at > Utc::now() + Duration::minutes(5) {..} }
TokenStillValid(tokens, nowv) ==
    /\ tokens.expires_at.some
    /\ tokens.expires_at.v > nowv + minutes(5)

\* a JSON member read through serde_json::Value indexing: absent (Null),
\* of the asked type, or of another type
JAbsent == [kind |-> "absent", s |-> "", n |-> 0]
JStr(x) == [kind |-> "string", s |-> x, n |-> 0]
JNum(x) == [kind |-> "u64", s |-> "", n |-> x]
JOther == [kind |-> "other", s |-> "", n |-> 0]

\* Value::as_u64().unwrap_or(d)
as_u64_or(j, d) == IF j.kind = "u64" THEN j.n ELSE d

\* expires_in default of refresh_token
DefaultExpiresIn == 3600

\* what the token endpoint answers to the refresh POST: a transport error,
\* or a status with a body that is JSON or not
NoResponse == [net |-> "error", status |-> 0, json |-> FALSE,
               access_token |-> JAbsent, expires_in |-> JAbsent,
               refresh_token |-> JAbsent]
Response(st, at, ei, rt) == [net |-> "ok", status |-> st, json |-> TRUE,
                             access_token |-> at, expires_in |-> ei,
                             refresh_token |-> rt]
NotJson(st) == [net |-> "ok", status |-> st, json |-> FALSE,
                access_token |-> JAbsent, expires_in |-> JAbsent,
                refresh_token |-> JAbsent]

\* refresh_token keeping the refresh token of the answer when it has one
refresh_token_Rotating(refresh, resp, nowv) ==
    IF resp.net # "ok" THEN Err
    ELSE IF ~resp.json THEN Err
    ELSE IF resp.access_token.kind # "string" THEN Err
    ELSE Ok(StoredTokens(resp.access_token.s,
                         IF resp.refresh_token.kind = "string"
                         THEN Some(resp.refresh_token.s)
                         ELSE Some(refresh),
                         Some(nowv + seconds(as_u64_or(resp.expires_in, DefaultExpiresIn)))))

\* refresh_token taking a missing access_token as the empty string
refresh_token_Lenient(refresh, resp, nowv) ==
    IF resp.net # "ok" THEN Err
    ELSE IF ~resp.json THEN Err
    ELSE Ok(StoredTokens(resp.access_token.s,
                         Some(refresh),
                         Some(nowv + seconds(as_u64_or(resp.expires_in, DefaultExpiresIn)))))

\* refresh_token(&self, refresh_token): send().await?, response.json().await?,
\* token_data["access_token"].as_str().ok_or(..)?; the status is not read
refresh_token(refresh, resp, nowv) ==
    IF resp.net # "ok" THEN Err
    ELSE IF ~resp.json THEN Err
    ELSE IF resp.access_token.kind # "string" THEN Err
    ELSE Ok(StoredTokens(resp.access_token.s,
                         Some(refresh),
                         Some(nowv + seconds(as_u64_or(resp.expires_in, DefaultExpiresIn)))))

(***************************************************************************)
(* Strings: str::trim, str::parse::<i64>                                   *)
(***************************************************************************)
IsWhitespace(c) == c \in {" ", "\t", "\n", "\r"}
IsDigit(c) == c \in {"0", "1", "2", "3", "4", "5", "6", "7", "8", "9"}
DigitVal(c) ==
    CASE c = "0" -> 0 [] c = "1" -> 1 [] c = "2" -> 2 [] c = "3" -> 3
      [] c = "4" -> 4 [] c = "5" -> 5 [] c = "6" -> 6 [] c = "7" -> 7
      [] c = "8" -> 8 [] OTHER -> 9

RECURSIVE trim_start(_)
trim_start(s) ==
    IF s # <<>> /\ IsWhitespace(Head(s)) THEN trim_start(Tail(s)) ELSE s

RECURSIVE trim_end(_)
trim_end(s) ==
    IF s # <<>> /\ IsWhitespace(s[Len(s)])
    THEN trim_end(SubSeq(s, 1, Len(s) - 1))
    ELSE s

\* str::trim
trim(s) == trim_end(trim_start(s))

\* the digits of s folded left to right onto acc; checked_mul / checked_add
\* of the build become a result that saturates above MaxI64 + 1
RECURSIVE fold_digits(_, _)
fold_digits(s, acc) ==
    IF s = <<>> THEN acc
    ELSE IF acc > MaxI64 + 1 THEN acc
    ELSE fold_digits(Tail(s), acc * 10 + DigitVal(Head(s)))

\* the decimal digits of a natural number
DigitChars == <<"0", "1", "2", "3", "4", "5", "6", "7", "8", "9">>
RECURSIVE DecimalText(_)
DecimalText(n) ==
    IF n < 10 THEN <<DigitChars[n + 1]>>
    ELSE Append(DecimalText(n \div 10), DigitChars[(n % 10) + 1])

ParseOk(n) == [ok |-> TRUE, v |-> n]
ParseErr == [ok |-> FALSE, v |-> 0]

\* i64::from_str: an optional sign, then one or more ASCII digits and
\* nothing else; a value outside i64 is an error
parse_i64(s) ==
    IF s = <<>> THEN ParseErr
    ELSE LET signed == Head(s) \in {"+", "-"}
             digits == IF signed THEN Tail(s) ELSE s
             mag == fold_digits(digits, 0)
         IN  IF digits = <<>> THEN ParseErr
             ELSE IF \E i \in 1..Len(digits) : ~IsDigit(digits[i]) THEN ParseErr
             ELSE IF Head(s) = "-"
                  THEN IF mag > MaxI64 + 1 THEN ParseErr ELSE ParseOk(0 - mag)
                  ELSE IF mag > MaxI64 THEN ParseErr ELSE ParseOk(mag)

(***************************************************************************)
(* chrono: DateTime::from_timestamp, DateTime + Duration, Duration * i32   *)
(***************************************************************************)
MinTimestamp == 0 - MaxTimestamp

\* DateTime::from_timestamp(secs, 0): None outside the representable range
from_timestamp(secs) ==
    IF secs >= MinTimestamp /\ secs <= MaxTimestamp THEN Some(secs) ELSE NoneI

\* the interval multiplied by the entry's number counted from one
duration_mul_FromOne(d, i) ==
    IF d * (i + 1) > MaxDuration \/ d * (i + 1) < 0 - MaxDuration THEN NoneI
    ELSE Some(d * (i + 1))

\* Duration * i32: checked_mul(..).expect(..), so None stands for the panic
duration_mul(d, i) ==
    IF d * i > MaxDuration \/ d * i < 0 - MaxDuration THEN NoneI ELSE Some(d * i)

\* DateTime + Duration: checked_add_signed(..).expect(..), None is the panic
datetime_add(t, d) ==
    IF t + d > MaxTimestamp \/ t + d < MinTimestamp THEN NoneI ELSE Some(t + d)

(***************************************************************************)
(* generate_schedule                                                       *)
(***************************************************************************)
\* fs::read_to_string of the timestamp file: an error, or its content
ReadErr == [ok |-> FALSE, content |-> <<>>]
ReadOk(s) == [ok |-> TRUE, content |-> s]

Anchor(t) == [ok |-> TRUE, v |-> t, err |-> ""]
AnchorErr(e) == [ok |-> FALSE, v |-> 0, err |-> e]

\* the anchor with the explicit start time tried before the timestamp file
schedule_start_StartFirst(start_time, timestamp_file, file, nowv) ==
    IF start_time.some THEN Anchor(start_time.v)
    ELSE IF timestamp_file.some
    THEN IF ~file.ok THEN AnchorErr("Failed to read timestamp")
         ELSE LET timestamp == parse_i64(trim(file.content))
              IN  IF ~timestamp.ok THEN AnchorErr("Invalid timestamp in file")
                  ELSE IF ~from_timestamp(timestamp.v).some
                       THEN AnchorErr("Invalid unix timestamp")
                       ELSE Anchor(timestamp.v)
    ELSE Anchor(nowv + hours(1))

\* the anchor with a timestamp file that gives no timestamp passed over
schedule_start_Fallback(start_time, timestamp_file, file, nowv) ==
    LET timestamp == parse_i64(trim(file.content))
    IN  IF timestamp_file.some /\ file.ok /\ timestamp.ok
           /\ from_timestamp(timestamp.v).some
        THEN Anchor(timestamp.v)
        ELSE IF start_time.some THEN Anchor(start_time.v)
        ELSE Anchor(nowv + hours(1))

\* let start = if let Some(file_path) = timestamp_file {..}
\*             else if let Some(start_time) = start_time {..} else {..}
schedule_start(start_time, timestamp_file, file, nowv) ==
    IF timestamp_file.some
    THEN IF ~file.ok THEN AnchorErr("Failed to read timestamp")
         ELSE LET timestamp == parse_i64(trim(file.content))
              IN  IF ~timestamp.ok THEN AnchorErr("Invalid timestamp in file")
                  ELSE IF ~from_timestamp(timestamp.v).some
                       THEN AnchorErr("Invalid unix timestamp")
                       ELSE Anchor(timestamp.v)
    ELSE IF start_time.some THEN Anchor(start_time.v)
    ELSE Anchor(nowv + hours(1))

Schedule(s) == [status |-> "ok", schedule |-> s, err |-> ""]
ScheduleErr(e) == [status |-> "err", schedule |-> <<>>, err |-> e]
SchedulePanic == [status |-> "panic", schedule |-> <<>>, err |-> ""]

\* for i in 0..video_count { schedule.push(start + interval * i as i32) }
RECURSIVE schedule_loop(_, _, _, _, _)
schedule_loop(i, video_count, start, interval, schedule) ==
    IF i >= video_count THEN Schedule(schedule)
    ELSE LET step == duration_mul(interval, i)
         IN  IF ~step.some THEN SchedulePanic
             ELSE LET scheduled_time == datetime_add(start, step.v)
                  IN  IF ~scheduled_time.some THEN SchedulePanic
                      ELSE schedule_loop(i + 1, video_count, start, interval,
                                         Append(schedule, scheduled_time.v))

generate_schedule(video_count, interval, start_time, timestamp_file, file, nowv) ==
    LET start == schedule_start(start_time, timestamp_file, file, nowv)
    IN  IF ~start.ok THEN ScheduleErr(start.err)
        ELSE schedule_loop(0, video_count, start.v, interval, <<>>)

(***************************************************************************)
(* parse_duration                                                          *)
(***************************************************************************)
Upper == <<"A", "B", "C", "D", "E", "F", "G", "H", "I", "J", "K", "L", "M",
           "N", "O", "P", "Q", "R", "S", "T", "U", "V", "W", "X", "Y", "Z">>
Lower == <<"a", "b", "c", "d", "e", "f", "g", "h", "i", "j", "k", "l", "m",
           "n", "o", "p", "q", "r", "s", "t", "u", "v", "w", "x", "y", "z">>

to_lower(c) ==
    IF \E i \in 1..Len(Upper) : Upper[i] = c
    THEN Lower[CHOOSE i \in 1..Len(Upper) : Upper[i] = c]
    ELSE c

\* str::to_lowercase
to_lowercase(s) == [i \in 1..Len(s) |-> to_lower(s[i])]

\* str::ends_with / str::starts_with of a one-character pattern
ends_with(s, c) == s # <<>> /\ s[Len(s)] = c
starts_with(s, c) == s # <<>> /\ s[1] = c

\* str::trim_end_matches: the pattern is removed as often as it matches
RECURSIVE trim_end_matches(_, _)
trim_end_matches(s, c) ==
    IF ends_with(s, c) THEN trim_end_matches(SubSeq(s, 1, Len(s) - 1), c) ELSE s

DurationOk(d) == [status |-> "ok", v |-> d]
DurationErr == [status |-> "err", v |-> 0]
DurationPanic == [status |-> "panic", v |-> 0]

\* Duration::hours / minutes / days of n, per seconds a unit: the
\* multiplication is checked and .expect("out of bounds") panics on a value
\* the Duration cannot hold
duration_of(n, per) ==
    IF n > MaxDuration \div per \/ n < 0 - (MaxDuration \div per) THEN DurationPanic
    ELSE DurationOk(n * per)

\* let n: i64 = text.parse()?; Ok(Duration::unit(n))
duration_from(text, unit) ==
    LET n == parse_i64(text)
    IN  IF ~n.ok THEN DurationErr
        ELSE duration_of(n.v, CASE unit = "h" -> hours(1)
                                [] unit = "m" -> minutes(1)
                                [] OTHER -> days(1))

\* parse_duration matching the unit letter against the text as it was given
parse_duration_CaseSensitive(duration_str) ==
    IF ends_with(duration_str, "h")
    THEN duration_from(trim_end_matches(duration_str, "h"), "h")
    ELSE IF ends_with(duration_str, "m")
    THEN duration_from(trim_end_matches(duration_str, "m"), "m")
    ELSE IF ends_with(duration_str, "d")
    THEN duration_from(trim_end_matches(duration_str, "d"), "d")
    ELSE duration_from(duration_str, "h")

parse_duration(duration_str) ==
    LET lowered == to_lowercase(duration_str)
    IN  IF ends_with(lowered, "h")
        THEN duration_from(trim_end_matches(lowered, "h"), "h")
        ELSE IF ends_with(lowered, "m")
        THEN duration_from(trim_end_matches(lowered, "m"), "m")
        ELSE IF ends_with(lowered, "d")
        THEN duration_from(trim_end_matches(lowered, "d"), "d")
        ELSE duration_from(lowered, "h")

\* the parse_duration call of a run: not made yet, or made on a text
NoParse == [called |-> FALSE, text |-> <<>>, result |-> DurationErr]
Parsed(text, result) == [called |-> TRUE, text |-> text, result |-> result]

(***************************************************************************)
(* State                                                                   *)
(***************************************************************************)
VARIABLES
    now,            \* the last reading of Utc::now()
    credFile,       \* ~/.youtube_tokens.json, shared by every instance
    pc,             \* where each instance's main stands
    exit_status,    \* "running", or how main ended: "ok", "error", "panic"
    video_count,    \* video_files.len()
    interval,       \* the parsed --interval
    parse_call,     \* the parse_duration call: its argument and result
    start_time,     \* the parsed --start-time
    metadata,       \* Vec<VideoMetadata>: privacy_status, scheduled_start_time
    sched_call,     \* the arguments of the generate_schedule call
    schedule,       \* what generate_schedule returned
    uploads,        \* the upload_video calls made, in order
    dry_run,        \* the --dry-run flag, once main has tested it
    input,          \* the line read at "Proceed with upload? (y/N)"
    access_token,   \* YouTubeUploader::access_token
    tokens,         \* authenticate's tokens (what load_tokens returned)
    new_tokens,     \* the StoredTokens built by refresh_token / the flow
    auth_result,    \* "none", "reused", "refreshed", "authorized", "error"
    flow_entered,   \* perform_oauth_flow was called
    reads,          \* fs::read_to_string calls on the credential file
    writes,         \* fs::write calls on the credential file
    last_write,     \* how the instance's last fs::write ended, or "none"
    refreshes,      \* refresh POSTs sent
    prompts,        \* authorization codes asked of the operator
    exchanges,      \* authorization-code exchanges sent
    refresh_resp,   \* the answer to the refresh POST
    code_resp,      \* the answer to the authorization-code exchange
    check_now,      \* Utc::now() of the reuse test
    token_now       \* Utc::now() of the last expires_at computation

ctlVars == <<pc, exit_status>>
argVars == <<video_count, interval, parse_call, start_time, metadata,
             sched_call, schedule, uploads>>
mainVars == <<argVars, dry_run, input>>
authVars == <<access_token, tokens, new_tokens, auth_result, flow_entered,
              reads, writes, last_write, refreshes, prompts, exchanges, refresh_resp,
              code_resp, check_now, token_now>>
vars == <<now, credFile, ctlVars, mainVars, authVars>>

Upd(f, p, v) == [f EXCEPT ![p] = v]

(***************************************************************************)
(* The environment: files, endpoint answers, operator input                *)
(***************************************************************************)
\* the credential files a run may find: none, bytes that do not
\* deserialize, or a StoredTokens with or without refresh token and expiry,
\* the expiry on either side of every reading of now + 5 minutes
StoredExpiries == {NoneI} \cup {Some(e) : e \in minutes(5)..(minutes(5) + MaxClock + 1)}
CredFiles ==
    {FileMissing, FileMalformed}
    \cup {FileOf(StoredTokens("stored", r, e)) :
            r \in {NoneS, Some("R0")}, e \in StoredExpiries}

\* HTTP statuses of the refresh answer; is_success is 200..=299
Statuses == {200, 400}
is_success(st) == st >= 200 /\ st <= 299

ExpiresInMembers == {JAbsent, JOther, JNum(60), JNum(7200)}
RefreshResponses ==
    {NoResponse}
    \cup {NotJson(st) : st \in Statuses}
    \cup {Response(st, at, JAbsent, JAbsent) : st \in Statuses, at \in {JAbsent, JOther}}
    \cup {Response(st, JStr("fresh"), ei, rt) :
            st \in Statuses, ei \in ExpiresInMembers, rt \in {JAbsent, JStr("R1")}}

\* the run of main meets fewer answers than authenticate alone is checked on
MainRefreshResponses ==
    {NoResponse, Response(400, JAbsent, JAbsent, JAbsent),
     Response(200, JStr("fresh"), JAbsent, JAbsent)}

\* the oauth2 crate's answer to exchange_code(..).request_async(..).await
CodeErr == [ok |-> FALSE, access_token |-> "", refresh_token |-> NoneS,
            expires_in |-> NoneI]
CodeOk(a, r, e) == [ok |-> TRUE, access_token |-> a, refresh_token |-> r,
                    expires_in |-> e]
CodeResponses ==
    {CodeErr}
    \cup {CodeOk("granted", r, e) : r \in {NoneS, Some("R2")}, e \in {NoneI, Some(3599)}}
MainCodeResponses == {CodeErr, CodeOk("granted", Some("R2"), Some(3599))}

(***************************************************************************)
(* authenticate                                                            *)
(***************************************************************************)
\* authenticate returns Err: main's `?` ends the run
AuthFails(p) ==
    /\ auth_result' = Upd(auth_result, p, "error")
    /\ pc' = Upd(pc, p, "exit")
    /\ exit_status' = Upd(exit_status, p, "error")

\* the reuse and refresh branches without their `return Ok(())`
AuthReturns_FallsThrough(p, how) ==
    /\ auth_result' = Upd(auth_result, p, how)
    /\ pc' = Upd(pc, p, "perform_oauth_flow")
    /\ UNCHANGED exit_status

\* authenticate returns Ok(()): main goes on to the upload loop
AuthReturns(p, how) ==
    /\ auth_result' = Upd(auth_result, p, how)
    /\ pc' = Upd(pc, p, "upload")
    /\ UNCHANGED exit_status

\* the fall-through returning the failure instead of calling the flow
EnterFlow_ReturnsErr(p) ==
    /\ UNCHANGED flow_entered
    /\ auth_result' = Upd(auth_result, p, "error")
    /\ pc' = Upd(pc, p, "exit")
    /\ exit_status' = Upd(exit_status, p, "error")

\* the fall-through to self.perform_oauth_flow().await?
EnterFlow(p) ==
    /\ flow_entered' = Upd(flow_entered, p, TRUE)
    /\ pc' = Upd(pc, p, "perform_oauth_flow")
    /\ UNCHANGED <<auth_result, exit_status>>

\* the load taken under a lock on the credential file that another
\* instance holds from its load to the return of its authenticate
LoadTokens_Locked(p) ==
    /\ pc[p] = "authenticate"
    /\ \A q \in Inst \ {p} :
          pc[q] \notin {"refresh_token", "store_refreshed", "perform_oauth_flow",
                        "exchange_code", "store_authorized"}
    /\ \E readable \in BOOLEAN, t \in now..MaxClock :
         LET loaded == load_tokens(credFile, readable)
         IN  /\ now' = t
             /\ reads' = Upd(reads, p, reads[p] + 1)
             /\ tokens' = Upd(tokens, p, loaded)
             /\ check_now' = Upd(check_now, p, t)
             /\ IF loaded.ok /\ TokenStillValid(loaded.tokens, t)
                THEN /\ access_token' = Upd(access_token, p, loaded.tokens.access_token)
                     /\ AuthReturns(p, "reused")
                     /\ UNCHANGED flow_entered
                ELSE IF loaded.ok /\ loaded.tokens.refresh_token.some
                THEN /\ pc' = Upd(pc, p, "refresh_token")
                     /\ UNCHANGED <<access_token, auth_result, exit_status, flow_entered>>
                ELSE /\ EnterFlow(p)
                     /\ UNCHANGED access_token
    /\ UNCHANGED <<credFile, mainVars, new_tokens, writes, last_write, refreshes, prompts,
                   exchanges, refresh_resp, code_resp, token_now>>

\* if let Ok(tokens) = self.load_tokens() { reuse test; refresh test } ..
LoadTokens(p) ==
    /\ pc[p] = "authenticate"
    /\ \E readable \in BOOLEAN, t \in now..MaxClock :
         LET loaded == load_tokens(credFile, readable)
         IN  /\ now' = t
             /\ reads' = Upd(reads, p, reads[p] + 1)
             /\ tokens' = Upd(tokens, p, loaded)
             /\ check_now' = Upd(check_now, p, t)
             /\ IF loaded.ok /\ TokenStillValid(loaded.tokens, t)
                THEN /\ access_token' = Upd(access_token, p, loaded.tokens.access_token)
                     /\ AuthReturns(p, "reused")
                     /\ UNCHANGED flow_entered
                ELSE IF loaded.ok /\ loaded.tokens.refresh_token.some
                THEN /\ pc' = Upd(pc, p, "refresh_token")
                     /\ UNCHANGED <<access_token, auth_result, exit_status, flow_entered>>
                ELSE /\ EnterFlow(p)
                     /\ UNCHANGED access_token
    /\ UNCHANGED <<credFile, mainVars, new_tokens, writes, last_write, refreshes, prompts,
                   exchanges, refresh_resp, code_resp, token_now>>

\* if let Ok(new_tokens) = self.refresh_token(&refresh_token).await
\*     { self.access_token = new_tokens.access_token.clone(); .. }
RefreshToken(p, Responses) ==
    /\ pc[p] = "refresh_token"
    /\ \E resp \in Responses, t \in now..MaxClock :
         LET refreshed == refresh_token(tokens[p].tokens.refresh_token.v, resp, t)
         IN  /\ now' = t
             /\ refreshes' = Upd(refreshes, p, refreshes[p] + 1)
             /\ refresh_resp' = Upd(refresh_resp, p, resp)
             /\ IF refreshed.ok
                THEN /\ new_tokens' = Upd(new_tokens, p, refreshed.tokens)
                     /\ token_now' = Upd(token_now, p, t)
                     /\ access_token' = Upd(access_token, p, refreshed.tokens.access_token)
                     /\ pc' = Upd(pc, p, "store_refreshed")
                     /\ UNCHANGED <<auth_result, exit_status, flow_entered>>
                ELSE /\ EnterFlow(p)
                     /\ UNCHANGED <<new_tokens, token_now, access_token>>
    /\ UNCHANGED <<credFile, mainVars, tokens, reads, writes, last_write, prompts, exchanges,
                   code_resp, check_now>>

\* the store with its Result dropped: authenticate returns Ok(()) anyway
StoreTokens_ErrorDropped(p, at, how) ==
    /\ pc[p] = at
    /\ \E outcome \in WriteOutcomes :
         LET stored == store_tokens(credFile, new_tokens[p], outcome)
         IN  /\ credFile' = stored.file
             /\ writes' = Upd(writes, p, writes[p] + 1)
             /\ last_write' = Upd(last_write, p, outcome)
             /\ AuthReturns(p, how)
    /\ UNCHANGED <<now, mainVars, access_token, tokens, new_tokens, flow_entered,
                   reads, refreshes, prompts, exchanges, refresh_resp, code_resp,
                   check_now, token_now>>

\* self.store_tokens(&new_tokens)?; return Ok(())
StoreTokens(p, at, how) ==
    /\ pc[p] = at
    /\ \E outcome \in WriteOutcomes :
         LET stored == store_tokens(credFile, new_tokens[p], outcome)
         IN  /\ credFile' = stored.file
             /\ writes' = Upd(writes, p, writes[p] + 1)
             /\ last_write' = Upd(last_write, p, outcome)
             /\ IF stored.ok THEN AuthReturns(p, how) ELSE AuthFails(p)
    /\ UNCHANGED <<now, mainVars, access_token, tokens, new_tokens, flow_entered,
                   reads, refreshes, prompts, exchanges, refresh_resp, code_resp,
                   check_now, token_now>>

\* the refreshed credential stored, a failed write leading on to the flow
StoreRefreshed_ThenFlow(p) ==
    /\ pc[p] = "store_refreshed"
    /\ \E outcome \in WriteOutcomes :
         LET stored == store_tokens(credFile, new_tokens[p], outcome)
         IN  /\ credFile' = stored.file
             /\ writes' = Upd(writes, p, writes[p] + 1)
             /\ last_write' = Upd(last_write, p, outcome)
             /\ IF stored.ok
                THEN AuthReturns(p, "refreshed") /\ UNCHANGED flow_entered
                ELSE EnterFlow(p)
    /\ UNCHANGED <<now, mainVars, access_token, tokens, new_tokens,
                   reads, refreshes, prompts, exchanges, refresh_resp, code_resp,
                   check_now, token_now>>

StoreRefreshed(p) == StoreTokens(p, "store_refreshed", "refreshed")

\* the prompt asked again when no line could be read
ReadAuthCode_Reprompts(p) ==
    /\ pc[p] = "perform_oauth_flow"
    /\ prompts' = Upd(prompts, p, prompts[p] + 1)
    /\ \E line_read \in BOOLEAN :
         pc' = Upd(pc, p, IF line_read THEN "exchange_code" ELSE "perform_oauth_flow")
    /\ UNCHANGED <<now, credFile, mainVars, access_token, tokens, new_tokens,
                   flow_entered, reads, writes, last_write, refreshes, exchanges,
                   refresh_resp, code_resp, check_now, token_now, auth_result,
                   exit_status>>

\* perform_oauth_flow up to std::io::stdin().read_line(&mut auth_code)?
ReadAuthCode(p) ==
    /\ pc[p] = "perform_oauth_flow"
    /\ prompts' = Upd(prompts, p, prompts[p] + 1)
    /\ \E line_read \in BOOLEAN :
         IF line_read
         THEN /\ pc' = Upd(pc, p, "exchange_code")
              /\ UNCHANGED <<auth_result, exit_status>>
         ELSE AuthFails(p)
    /\ UNCHANGED <<now, credFile, mainVars, access_token, tokens, new_tokens,
                   flow_entered, reads, writes, last_write, refreshes, exchanges,
                   refresh_resp, code_resp, check_now, token_now>>

\* the StoredTokens of the flow with the expiry defaulted as in refresh_token
flow_tokens_DefaultExpiry(resp, nowv) ==
    StoredTokens(resp.access_token,
                 resp.refresh_token,
                 IF resp.expires_in.some
                 THEN Some(nowv + seconds(resp.expires_in.v))
                 ELSE Some(nowv + seconds(DefaultExpiresIn)))

\* the StoredTokens perform_oauth_flow builds from the token_result
flow_tokens(resp, nowv) ==
    StoredTokens(resp.access_token,
                 resp.refresh_token,
                 IF resp.expires_in.some
                 THEN Some(nowv + seconds(resp.expires_in.v))
                 ELSE NoneI)

\* a failed exchange leading back to the prompt for another code
ExchangeCode_Reprompts(p, Responses) ==
    /\ pc[p] = "exchange_code"
    /\ \E resp \in Responses, t \in now..MaxClock :
         /\ now' = t
         /\ exchanges' = Upd(exchanges, p, exchanges[p] + 1)
         /\ code_resp' = Upd(code_resp, p, resp)
         /\ IF resp.ok
            THEN /\ new_tokens' = Upd(new_tokens, p, flow_tokens(resp, t))
                 /\ token_now' = Upd(token_now, p, t)
                 /\ access_token' = Upd(access_token, p, resp.access_token)
                 /\ pc' = Upd(pc, p, "store_authorized")
            ELSE /\ pc' = Upd(pc, p, "perform_oauth_flow")
                 /\ UNCHANGED <<new_tokens, token_now, access_token>>
    /\ UNCHANGED <<credFile, mainVars, tokens, flow_entered, reads, writes,
                   last_write, refreshes, prompts, refresh_resp, check_now,
                   auth_result, exit_status>>

\* exchange_code(..).request_async(async_http_client).await?; then
\* self.access_token = tokens.access_token.clone()
ExchangeCode(p, Responses) ==
    /\ pc[p] = "exchange_code"
    /\ \E resp \in Responses, t \in now..MaxClock :
         /\ now' = t
         /\ exchanges' = Upd(exchanges, p, exchanges[p] + 1)
         /\ code_resp' = Upd(code_resp, p, resp)
         /\ IF resp.ok
            THEN /\ new_tokens' = Upd(new_tokens, p, flow_tokens(resp, t))
                 /\ token_now' = Upd(token_now, p, t)
                 /\ access_token' = Upd(access_token, p, resp.access_token)
                 /\ pc' = Upd(pc, p, "store_authorized")
                 /\ UNCHANGED <<auth_result, exit_status>>
            ELSE /\ AuthFails(p)
                 /\ UNCHANGED <<new_tokens, token_now, access_token>>
    /\ UNCHANGED <<credFile, mainVars, tokens, flow_entered, reads, writes,
                   last_write, refreshes, prompts, refresh_resp, check_now>>

StoreAuthorized(p) == StoreTokens(p, "store_authorized", "authorized")

(***************************************************************************)
(* Initial states                                                          *)
(***************************************************************************)
NoCall == [called |-> FALSE, video_count |-> 0, interval |-> 0,
           start_time |-> NoneI, timestamp_file |-> NoneS, file |-> ReadErr,
           now |-> 0]
NoSchedule == [status |-> "none", schedule |-> <<>>, err |-> ""]

\* every instance's state before main has done anything; YouTubeUploader::new
\* sets access_token to String::new()
FreshWith(pc0, Files, n, iv, st) ==
    /\ now = 0
    /\ credFile \in Files
    /\ pc = pc0
    /\ exit_status = [p \in Inst |-> "running"]
    /\ video_count = [p \in Inst |-> IF p = 1 THEN n ELSE 0]
    /\ interval = [p \in Inst |-> IF p = 1 THEN iv ELSE 0]
    /\ parse_call = [p \in Inst |-> NoParse]
    /\ start_time = [p \in Inst |-> IF p = 1 THEN st ELSE NoneI]
    /\ metadata = [p \in Inst |-> <<>>]
    /\ sched_call = [p \in Inst |-> NoCall]
    /\ schedule = [p \in Inst |-> NoSchedule]
    /\ uploads = [p \in Inst |-> <<>>]
    /\ dry_run = [p \in Inst |-> NoneB]
    /\ input = [p \in Inst |-> NoneL]
    /\ access_token = [p \in Inst |-> ""]
    /\ tokens = [p \in Inst |-> Err]
    /\ new_tokens = [p \in Inst |-> EmptyTokens]
    /\ auth_result = [p \in Inst |-> "none"]
    /\ flow_entered = [p \in Inst |-> FALSE]
    /\ reads = [p \in Inst |-> 0]
    /\ writes = [p \in Inst |-> 0]
    /\ last_write = [p \in Inst |-> "none"]
    /\ refreshes = [p \in Inst |-> 0]
    /\ prompts = [p \in Inst |-> 0]
    /\ exchanges = [p \in Inst |-> 0]
    /\ refresh_resp = [p \in Inst |-> NoResponse]
    /\ code_resp = [p \in Inst |-> CodeErr]
    /\ check_now = [p \in Inst |-> 0]
    /\ token_now = [p \in Inst |-> 0]

Fresh(pc0, Files) == FreshWith(pc0, Files, 0, 0, NoneI)

(***************************************************************************)
(* SpecAuth: one instance calls authenticate on a fresh YouTubeUploader    *)
(***************************************************************************)
InitAuth == Fresh([p \in Inst |-> IF p = 1 THEN "authenticate" ELSE "off"], CredFiles)

AuthLoad == \E p \in Inst : LoadTokens(p)
AuthRefresh == \E p \in Inst : RefreshToken(p, RefreshResponses)
AuthStoreRefreshed == \E p \in Inst : StoreRefreshed(p)
AuthReadCode == \E p \in Inst : ReadAuthCode(p)
AuthExchange == \E p \in Inst : ExchangeCode(p, CodeResponses)
AuthStoreAuthorized == \E p \in Inst : StoreAuthorized(p)

NextAuth ==
    \/ AuthLoad
    \/ AuthRefresh
    \/ AuthStoreRefreshed
    \/ AuthReadCode
    \/ AuthExchange
    \/ AuthStoreAuthorized

SpecAuth == InitAuth /\ [][NextAuth]_vars

(***************************************************************************)
(* main                                                                    *)
(***************************************************************************)
\* main returns, or panics: nothing of the run happens afterwards
Exit(p, status) ==
    /\ pc' = Upd(pc, p, "exit")
    /\ exit_status' = Upd(exit_status, p, status)

Goto(p, label) ==
    /\ pc' = Upd(pc, p, label)
    /\ UNCHANGED exit_status

\* video_files: the --videos value split at ',' (never empty)
ParseArgs(p) ==
    /\ pc[p] = "main"
    /\ \E n \in 1..MaxVideos : video_count' = Upd(video_count, p, n)
    /\ Goto(p, "parse_duration")
    /\ UNCHANGED <<now, credFile, dry_run, input, interval, parse_call, start_time, metadata,
                   sched_call, schedule, uploads, authVars>>

\* let interval = parse_duration(interval_str)?;
ParseDuration(p, Texts) ==
    /\ pc[p] = "parse_duration"
    /\ \E text \in Texts :
         LET parsed == parse_duration(text)
         IN  /\ parse_call' = Upd(parse_call, p, Parsed(text, parsed))
             /\ CASE parsed.status = "ok" ->
                        /\ interval' = Upd(interval, p, parsed.v)
                        /\ Goto(p, "load_oauth_config")
                   [] parsed.status = "err" ->
                        /\ Exit(p, "error")
                        /\ UNCHANGED interval
                   [] OTHER ->
                        /\ Exit(p, "panic")
                        /\ UNCHANGED interval
    /\ UNCHANGED <<now, credFile, dry_run, input, video_count, start_time, metadata, sched_call,
                   schedule, uploads, authVars>>

\* let oauth_config = load_oauth_config(oauth_config_path)?;
LoadOAuthConfig(p) ==
    /\ pc[p] = "load_oauth_config"
    /\ \E loaded \in BOOLEAN :
         IF loaded THEN Goto(p, "start_time") ELSE Exit(p, "error")
    /\ UNCHANGED <<now, credFile, mainVars, authVars>>

\* --start-time: absent, or DateTime::parse_from_rfc3339(start_str)?
StartTimes == {0, 7000}
ParseStartTime(p) ==
    /\ pc[p] = "start_time"
    /\ \/ /\ \E st \in {NoneI} \cup {Some(t) : t \in StartTimes} :
               start_time' = Upd(start_time, p, st)
          /\ Goto(p, "metadata")
       \/ /\ Exit(p, "error")
          /\ UNCHANGED start_time
    /\ UNCHANGED <<now, credFile, dry_run, input, video_count, interval, parse_call, metadata,
                   sched_call, schedule, uploads, authVars>>

\* DateTime::to_rfc3339: the instant written out at offset +00:00
to_rfc3339(t) == [secs |-> t, offset |-> "+00:00"]
NoneT == [some |-> FALSE, v |-> to_rfc3339(0)]

VideoMetadata(privacy, scheduled) ==
    [privacy_status |-> privacy, scheduled_start_time |-> scheduled]

\* let mut metadata = if let Some(path) = .. { load_video_metadata(path)? }
\*                    else { create_default_metadata(&video_files) };
\* a metadata file holds any number of entries; the default has one entry a
\* video and panics (.expect) when the quotes file gives no line
LoadMetadata(p) ==
    /\ pc[p] = "metadata"
    /\ \/ \E n \in 0..MaxVideos, privacy \in {"public", "private"} :
            /\ metadata' = Upd(metadata, p, [i \in 1..n |-> VideoMetadata(privacy, NoneT)])
            /\ Goto(p, "generate_schedule")
       \/ /\ Exit(p, "error")
          /\ UNCHANGED metadata
       \/ /\ metadata' = Upd(metadata, p,
                             [i \in 1..video_count[p] |-> VideoMetadata("private", NoneT)])
          /\ Goto(p, "generate_schedule")
       \/ /\ Exit(p, "panic")
          /\ UNCHANGED metadata
    /\ UNCHANGED <<now, credFile, dry_run, input, video_count, interval, parse_call, start_time,
                   sched_call, schedule, uploads, authVars>>

Call(n, iv, st, tf, file, nowv) ==
    [called |-> TRUE, video_count |-> n, interval |-> iv, start_time |-> st,
     timestamp_file |-> tf, file |-> file, now |-> nowv]

\* the call with an Err of generate_schedule taken for an empty schedule
CallGenerateSchedule_ErrIgnored(p, n, iv, st, tf, file, t) ==
    LET result == generate_schedule(n, iv, st, tf, file, t)
    IN  /\ now' = t
        /\ sched_call' = Upd(sched_call, p, Call(n, iv, st, tf, file, t))
        /\ schedule' = Upd(schedule, p, result)
        /\ CASE result.status = "ok" -> Goto(p, "apply_schedule")
             [] result.status = "err" -> Goto(p, "apply_schedule")
             [] OTHER -> Exit(p, "panic")

\* a call of generate_schedule with the timestamp file as the run finds it
\* and Utc::now() as it reads at the call
CallGenerateSchedule(p, n, iv, st, tf, file, t) ==
    LET result == generate_schedule(n, iv, st, tf, file, t)
    IN  /\ now' = t
        /\ sched_call' = Upd(sched_call, p, Call(n, iv, st, tf, file, t))
        /\ schedule' = Upd(schedule, p, result)
        /\ CASE result.status = "ok" -> Goto(p, "apply_schedule")
             [] result.status = "err" -> Exit(p, "error")
             [] OTHER -> Exit(p, "panic")

\* let schedule = generate_schedule(video_files.len(), interval, start_time,
\*                                  timestamp_file.map(|s| s.as_str()))?;
GenerateSchedule(p, Files) ==
    /\ pc[p] = "generate_schedule"
    /\ \E t \in now..MaxClock :
         \/ CallGenerateSchedule(p, video_count[p], interval[p], start_time[p],
                                 NoneS, ReadErr, t)
         \/ \E file \in Files :
              CallGenerateSchedule(p, video_count[p], interval[p], start_time[p],
                                   Some("ts"), file, t)
    /\ UNCHANGED <<credFile, dry_run, input, video_count, interval, parse_call, start_time,
                   metadata, uploads, authVars>>

\* the stamping that leaves each entry's privacy_status as it was loaded
apply_schedule_KeepsPrivacy(md, sched) ==
    [i \in 1..Len(md) |->
        IF i <= Len(sched)
        THEN VideoMetadata(md[i].privacy_status, Some(to_rfc3339(sched[i])))
        ELSE md[i]]

\* for (i, scheduled_time) in schedule.iter().enumerate()
\*     { if i < metadata.len() { stamp metadata[i] } }
apply_schedule(md, sched) ==
    [i \in 1..Len(md) |->
        IF i <= Len(sched)
        THEN VideoMetadata("private", Some(to_rfc3339(sched[i])))
        ELSE md[i]]

ApplySchedule(p) ==
    /\ pc[p] = "apply_schedule"
    /\ metadata' = Upd(metadata, p, apply_schedule(metadata[p], schedule[p].schedule))
    /\ Goto(p, "dry_run")
    /\ UNCHANGED <<now, credFile, dry_run, input, video_count, interval, parse_call, start_time,
                   sched_call, schedule, uploads, authVars>>

\* if dry_run { return Ok(()); }
DryRun(p) ==
    /\ pc[p] = "dry_run"
    /\ \E flag \in BOOLEAN :
         /\ dry_run' = Upd(dry_run, p, Some(flag))
         /\ IF flag THEN Exit(p, "ok") ELSE Goto(p, "confirm")
    /\ UNCHANGED <<now, credFile, argVars, input, authVars>>

\* what the operator may type at "Proceed with upload? (y/N)"
Answers == {<<"y", "\n">>, <<" ", "Y", "e", "s", "\n">>, <<"n", "\n">>, <<"\n">>, <<>>}

\* the test taking every answer but a no for a yes
confirmed_DefaultYes(answer) == ~starts_with(to_lowercase(trim(answer)), "n")

\* !input.trim().to_lowercase().starts_with('y')
confirmed(answer) == starts_with(to_lowercase(trim(answer)), "y")

\* the prompt repeated until the answer is a yes or a no
Confirm_UntilAnswered(p) ==
    /\ pc[p] = "confirm"
    /\ \/ /\ Exit(p, "error")
          /\ UNCHANGED input
       \/ \E line \in Answers :
            /\ input' = Upd(input, p, Some(line))
            /\ IF confirmed(line) THEN Goto(p, "new_uploader")
               ELSE IF starts_with(to_lowercase(trim(line)), "n") THEN Exit(p, "ok")
               ELSE Goto(p, "confirm")
    /\ UNCHANGED <<now, credFile, argVars, dry_run, authVars>>

\* std::io::stdin().read_line(&mut input)?; if !.. { return Ok(()); }
Confirm(p) ==
    /\ pc[p] = "confirm"
    /\ \/ /\ Exit(p, "error")
          /\ UNCHANGED input
       \/ \E line \in Answers :
            /\ input' = Upd(input, p, Some(line))
            /\ IF confirmed(line) THEN Goto(p, "new_uploader") ELSE Exit(p, "ok")
    /\ UNCHANGED <<now, credFile, argVars, dry_run, authVars>>

\* let mut uploader = YouTubeUploader::new(&oauth_config)?;
NewUploader(p) ==
    /\ pc[p] = "new_uploader"
    /\ \E built \in BOOLEAN :
         IF built THEN Goto(p, "authenticate") ELSE Exit(p, "error")
    /\ UNCHANGED <<now, credFile, mainVars, authVars>>

\* how one upload_video call ends: Ok, or Err at fs::read, at send, or on a
\* non-success status
UploadOutcomes == {"ok", "read_failed", "send_failed", "rejected"}

\* the request of an uploader whose access_token is still String::new()
Attempt_NoToken(i, md, token, outcome) ==
    [video |-> i, privacy_status |-> md.privacy_status,
     publish_at |-> md.scheduled_start_time, token |-> "",
     outcome |-> outcome]

Attempt(i, md, token, outcome) ==
    [video |-> i, privacy_status |-> md.privacy_status,
     publish_at |-> md.scheduled_start_time, token |-> token,
     outcome |-> outcome]

\* the number of (video_file, video_metadata) pairs of the zip
pairs(p) == IF video_count[p] <= Len(metadata[p]) THEN video_count[p]
            ELSE Len(metadata[p])

\* one turn of the loop with the error of upload_video passed on by `?`
Upload_AbortsOnError(p) ==
    /\ pc[p] = "upload"
    /\ Len(uploads[p]) < pairs(p)
    /\ \E outcome \in UploadOutcomes :
         LET i == Len(uploads[p]) + 1
         IN  /\ uploads' = Upd(uploads, p,
                    Append(uploads[p], Attempt(i, metadata[p][i], access_token[p], outcome)))
             /\ IF outcome = "ok" THEN UNCHANGED ctlVars ELSE Exit(p, "error")
    /\ UNCHANGED <<now, credFile, dry_run, input, video_count, interval, parse_call,
                   start_time, metadata, sched_call, schedule, authVars>>

\* one turn of `for (i, (video_file, video_metadata)) in .. { match
\* uploader.upload_video(..).await { Ok(..) => .., Err(e) => .. } }`
Upload(p) ==
    /\ pc[p] = "upload"
    /\ Len(uploads[p]) < pairs(p)
    /\ \E outcome \in UploadOutcomes :
         LET i == Len(uploads[p]) + 1
         IN  uploads' = Upd(uploads, p,
                 Append(uploads[p], Attempt(i, metadata[p][i], access_token[p], outcome)))
    /\ UNCHANGED <<now, credFile, dry_run, input, ctlVars, video_count, interval, parse_call,
                   start_time, metadata, sched_call, schedule, authVars>>

\* the loop is over: println!("Upload process completed!"); Ok(())
Finish(p) ==
    /\ pc[p] = "upload"
    /\ Len(uploads[p]) >= pairs(p)
    /\ Exit(p, "ok")
    /\ UNCHANGED <<now, credFile, mainVars, authVars>>

(***************************************************************************)
(* Spec: one run of main                                                   *)
(***************************************************************************)
\* the texts a run's --interval and timestamp file are drawn from
MainIntervalTexts ==
    {<<"1", "m">>, <<"2", "H">>, <<"x">>, <<"9", "9", "9", "9", "h">>}
MainTimestampFiles ==
    {ReadErr, ReadOk(<<"x">>), ReadOk(<<" ", "7", "7", "\n">>),
     ReadOk(DecimalText(MaxTimestamp))}

Init == Fresh([p \in Inst |-> IF p = 1 THEN "main" ELSE "off"], CredFiles)

MainParseArgs == \E p \in Inst : ParseArgs(p)
MainParseDuration == \E p \in Inst : ParseDuration(p, MainIntervalTexts)
MainLoadOAuthConfig == \E p \in Inst : LoadOAuthConfig(p)
MainParseStartTime == \E p \in Inst : ParseStartTime(p)
MainLoadMetadata == \E p \in Inst : LoadMetadata(p)
MainGenerateSchedule == \E p \in Inst : GenerateSchedule(p, MainTimestampFiles)
MainApplySchedule == \E p \in Inst : ApplySchedule(p)
MainDryRun == \E p \in Inst : DryRun(p)
MainConfirm == \E p \in Inst : Confirm(p)
MainNewUploader == \E p \in Inst : NewUploader(p)
MainLoad == \E p \in Inst : LoadTokens(p)
MainRefresh == \E p \in Inst : RefreshToken(p, MainRefreshResponses)
MainStoreRefreshed == \E p \in Inst : StoreRefreshed(p)
MainReadCode == \E p \in Inst : ReadAuthCode(p)
MainExchange == \E p \in Inst : ExchangeCode(p, MainCodeResponses)
MainStoreAuthorized == \E p \in Inst : StoreAuthorized(p)
MainUpload == \E p \in Inst : Upload(p)
MainFinish == \E p \in Inst : Finish(p)

Next ==
    \/ MainParseArgs
    \/ MainParseDuration
    \/ MainLoadOAuthConfig
    \/ MainParseStartTime
    \/ MainLoadMetadata
    \/ MainGenerateSchedule
    \/ MainApplySchedule
    \/ MainDryRun
    \/ MainConfirm
    \/ MainNewUploader
    \/ MainLoad
    \/ MainRefresh
    \/ MainStoreRefreshed
    \/ MainReadCode
    \/ MainExchange
    \/ MainStoreAuthorized
    \/ MainUpload
    \/ MainFinish

Spec == Init /\ [][Next]_vars

(***************************************************************************)
(* SpecLive: one run of main in which every blocking operation returns     *)
(***************************************************************************)
\* one --interval that parses and one that does not; a credential file
\* for each branch of authenticate
LiveIntervalTexts == {<<"1", "m">>, <<"x">>}
LiveFiles ==
    {FileMissing,
     FileOf(StoredTokens("stored", Some("R0"), NoneI)),
     FileOf(StoredTokens("stored", NoneS, Some(minutes(5) + MaxClock + 1)))}

InitLive == Fresh([p \in Inst |-> IF p = 1 THEN "main" ELSE "off"], LiveFiles)

LiveParseDuration == \E p \in Inst : ParseDuration(p, LiveIntervalTexts)
LiveGenerateSchedule == \E p \in Inst : GenerateSchedule(p, {ReadErr})

NextLive ==
    \/ MainParseArgs
    \/ LiveParseDuration
    \/ MainLoadOAuthConfig
    \/ MainParseStartTime
    \/ MainLoadMetadata
    \/ LiveGenerateSchedule
    \/ MainApplySchedule
    \/ MainDryRun
    \/ MainConfirm
    \/ MainNewUploader
    \/ MainLoad
    \/ MainRefresh
    \/ MainStoreRefreshed
    \/ MainReadCode
    \/ MainExchange
    \/ MainStoreAuthorized
    \/ MainUpload
    \/ MainFinish

\* a step that can be taken is taken in the end
SpecLive == InitLive /\ [][NextLive]_vars /\ WF_vars(NextLive)

(***************************************************************************)
(* SpecSchedule: generate_schedule on every bounded input                  *)
(***************************************************************************)
\* every text of at most n characters over a set of characters
RECURSIVE Texts(_, _)
Texts(chars, n) ==
    IF n = 0 THEN {<<>>}
    ELSE LET shorter == Texts(chars, n - 1)
         IN  shorter \cup {Append(s, c) : s \in shorter, c \in chars}

\* the texts at the edges of the timestamp range and of i64
EdgeTexts ==
    {DecimalText(MaxTimestamp), DecimalText(MaxTimestamp + 1),
     <<"-">> \o DecimalText(MaxTimestamp), <<"-">> \o DecimalText(MaxTimestamp + 1),
     DecimalText(MaxI64), DecimalText(MaxI64 + 1),
     <<"-">> \o DecimalText(MaxI64 + 1), <<"-">> \o DecimalText(MaxI64 + 2)}

TimestampChars == {"6", "7", "-", " ", "x"}
TimestampTexts ==
    Texts(TimestampChars, MaxLen)
    \cup EdgeTexts
    \cup {<<"+", "7">>, <<"7", "7", "\n">>, <<"\n", "0", "7", "\n">>, <<"7", "+">>}
TimestampFiles == {ReadErr} \cup {ReadOk(s) : s \in TimestampTexts}

Intervals == {hours(-1), 0, minutes(1), hours(2), days(12), days(-12)}

\* main stands before its generate_schedule call, with any count, interval
\* and explicit start time
InitSchedule ==
    \E n \in 0..MaxVideos, iv \in Intervals, st \in {NoneI, Some(7000), Some(-7000)} :
        FreshWith([p \in Inst |-> IF p = 1 THEN "generate_schedule" ELSE "off"],
                  {FileMissing}, n, iv, st)

SchedGenerate == \E p \in Inst : GenerateSchedule(p, TimestampFiles)

NextSchedule == SchedGenerate

SpecSchedule == InitSchedule /\ [][NextSchedule]_vars

(***************************************************************************)
(* SpecDuration: parse_duration on every bounded --interval text           *)
(***************************************************************************)
\* the texts of src/test.rs, and one in capitals
TestTexts ==
    {<<"2", "h">>, <<"3", "0", "m">>, <<"1", "d">>, <<"3">>, <<"2", "H">>,
     <<"3", "0", "M">>, <<"1", "D">>, <<"+", "2", "h">>, <<"2", "h", "\n">>}

\* texts of an integer at the edges of what a Duration of hours, minutes or
\* days holds, and at the edges of i64
DurationEdgeTexts ==
    UNION {{DecimalText(MaxDuration \div per) \o <<u>>,
            DecimalText((MaxDuration \div per) + 1) \o <<u>>,
            <<"-">> \o DecimalText(MaxDuration \div per) \o <<u>>,
            <<"-">> \o DecimalText((MaxDuration \div per) + 1) \o <<u>>} :
           <<u, per>> \in {<<"h", hours(1)>>, <<"m", minutes(1)>>, <<"d", days(1)>>}}
    \cup {DecimalText(MaxDuration \div hours(1)),
          DecimalText((MaxDuration \div hours(1)) + 1),
          DecimalText(MaxI64) \o <<"m">>, DecimalText(MaxI64 + 1) \o <<"m">>,
          <<"-">> \o DecimalText(MaxI64 + 2) \o <<"d">>}

DurationChars == {"2", "-", "h", "M", "d", "s", " "}
DurationTexts == Texts(DurationChars, MaxLen) \cup TestTexts \cup DurationEdgeTexts

\* main stands before its parse_duration call
InitDuration ==
    Fresh([p \in Inst |-> IF p = 1 THEN "parse_duration" ELSE "off"], {FileMissing})

DurParse == \E p \in Inst : ParseDuration(p, DurationTexts)

NextDuration == DurParse

SpecDuration == InitDuration /\ [][NextDuration]_vars

(***************************************************************************)
(* SpecRace: two instances call authenticate on the same credential file   *)
(***************************************************************************)
\* the instances that run; each is a process of its own with its own
\* YouTubeUploader, and they share nothing but the file
Racers == {p \in Inst : p <= 2}

\* an expiring credential with a refresh token, or no credential
RaceFiles ==
    {FileMissing,
     FileOf(StoredTokens("stored", Some("R0"), NoneI)),
     FileOf(StoredTokens("stored", Some("R0"), Some(minutes(5))))}

\* the endpoint issues a new access token with every refresh it grants
RaceRefreshResponses ==
    {NoResponse,
     Response(200, JStr("fresh"), JAbsent, JAbsent),
     Response(200, JStr("fresher"), JAbsent, JAbsent)}

InitRace ==
    Fresh([p \in Inst |-> IF p \in Racers THEN "authenticate" ELSE "off"], RaceFiles)

RaceLoad == \E p \in Inst : LoadTokens(p)
RaceRefresh == \E p \in Inst : RefreshToken(p, RaceRefreshResponses)
RaceStoreRefreshed == \E p \in Inst : StoreRefreshed(p)
RaceReadCode == \E p \in Inst : ReadAuthCode(p)
RaceExchange == \E p \in Inst : ExchangeCode(p, MainCodeResponses)
RaceStoreAuthorized == \E p \in Inst : StoreAuthorized(p)

NextRace ==
    \/ RaceLoad
    \/ RaceRefresh
    \/ RaceStoreRefreshed
    \/ RaceReadCode
    \/ RaceExchange
    \/ RaceStoreAuthorized

SpecRace == InitRace /\ [][NextRace]_vars

(***************************************************************************)
(* Properties of authenticate                                              *)
(***************************************************************************)
\* the refresh answer carries an access token: a JSON body whose
\* access_token member is a string
AnswerHasToken(resp) ==
    resp.net = "ok" /\ resp.json /\ resp.access_token.kind = "string"

\* the credential file instance p loaded, and the reuse condition on it
LoadedOk(p) == reads[p] = 1 /\ tokens[p].ok
ReuseCondition(p) ==
    /\ tokens[p].tokens.expires_at.some
    /\ tokens[p].tokens.expires_at.v > check_now[p] + 300

\* C1: token reuse. Once authenticate has loaded a credential whose
\* expires_at is present and later than now + 5 minutes, it has returned
\* success with the stored access token active, and has sent no refresh and
\* no code exchange, asked no code, and not written the credential file.
C1_TokenReuse ==
    \A p \in Inst :
        (LoadedOk(p) /\ ReuseCondition(p))
        => /\ auth_result[p] = "reused"
           /\ pc[p] # "exit" \/ exit_status[p] = "ok"
           /\ exit_status[p] # "error"
           /\ access_token[p] = tokens[p].tokens.access_token
           /\ access_token[p] = "stored"
           /\ refreshes[p] = 0 /\ exchanges[p] = 0 /\ prompts[p] = 0
           /\ ~flow_entered[p]
           /\ writes[p] = 0
           /\ credFile = FileOf(tokens[p].tokens)

C1_Witness ==
    \E p \in Inst :
        /\ LoadedOk(p) /\ ReuseCondition(p)
        /\ auth_result[p] = "reused" /\ pc[p] = "upload"

\* the expires_in the refreshed credential is computed from: the answer's
\* member when it is an unsigned integer, 3600 otherwise
AnswerExpiresIn(resp) ==
    IF resp.expires_in.kind = "u64" THEN resp.expires_in.n ELSE 3600

\* the credential a successful refresh is to leave in the file
RefreshedCredential(p) ==
    FileOf([access_token |-> refresh_resp[p].access_token.s,
            refresh_token |-> Some("R0"),
            expires_at |-> Some(token_now[p] + AnswerExpiresIn(refresh_resp[p]))])

RefreshAnswered(p) ==
    /\ LoadedOk(p) /\ ~ReuseCondition(p)
    /\ tokens[p].tokens.refresh_token = Some("R0")
    /\ refreshes[p] = 1
    /\ AnswerHasToken(refresh_resp[p])

RefreshFailed(p) ==
    /\ refreshes[p] = 1
    /\ \/ refresh_resp[p].net = "error"
       \/ ~refresh_resp[p].json
       \/ refresh_resp[p].access_token.kind # "string"

C3_RefreshFailureFallback ==
    \A p \in Inst :
        RefreshFailed(p)
        => /\ flow_entered[p]
           /\ auth_result[p] # "refreshed"
           /\ pc[p] \notin {"refresh_token", "store_refreshed"}
           /\ pc[p] = "perform_oauth_flow"
              => /\ writes[p] = 0
                 /\ credFile = FileOf(tokens[p].tokens)
                 /\ access_token[p] = ""
                 /\ new_tokens[p] = EmptyTokens
                 /\ auth_result[p] = "none"
                 /\ exit_status[p] = "running"
           /\ auth_result[p] = "error" => prompts[p] = 1

C3_Witness ==
    \E p \in Inst :
        /\ RefreshFailed(p)
        /\ refresh_resp[p].net = "ok" /\ refresh_resp[p].json
        /\ refresh_resp[p].access_token.kind = "absent"
        /\ pc[p] = "perform_oauth_flow"

\* C4 as claimed: authenticate returns an error only if the interactive
\* flow was entered in that invocation.
C4_ErrorOnlyFromFlow ==
    \A p \in Inst : auth_result[p] = "error" => flow_entered[p]

\* C5 as claimed: a refresh answer with a non-success status is a failed
\* refresh: nothing of it becomes active or is persisted and authenticate
\* falls through to the interactive flow.
C5_NonSuccessIsFailure ==
    \A p \in Inst :
        (refreshes[p] = 1 /\ refresh_resp[p].net = "ok"
            /\ ~(refresh_resp[p].status >= 200 /\ refresh_resp[p].status <= 299))
        => /\ flow_entered[p]
           /\ auth_result[p] # "refreshed"
           /\ pc[p] # "store_refreshed"

\* C6: one-directional fallback. A refresh is sent only after a successful
\* load whose credential failed the reuse condition and has a refresh
\* token; the flow is entered only without reuse and without a successful
\* refresh; after reuse or a successful refresh the flow is never entered,
\* and once the flow is entered authenticate is past load, reuse and refresh.
C6_OneDirectionalFallback ==
    \A p \in Inst :
        /\ (refreshes[p] > 0 \/ pc[p] \in {"refresh_token", "store_refreshed"})
           => /\ LoadedOk(p) /\ ~ReuseCondition(p)
              /\ tokens[p].tokens.refresh_token.some
        /\ flow_entered[p]
           => /\ auth_result[p] \notin {"reused", "refreshed"}
              /\ ~(LoadedOk(p) /\ ReuseCondition(p))
              /\ refreshes[p] = 0 \/ ~AnswerHasToken(refresh_resp[p])
              /\ pc[p] \notin {"authenticate", "refresh_token", "store_refreshed"}
        /\ (auth_result[p] \in {"reused", "refreshed"}
              \/ (refreshes[p] > 0 /\ AnswerHasToken(refresh_resp[p])))
           => /\ ~flow_entered[p] /\ prompts[p] = 0 /\ exchanges[p] = 0
              /\ pc[p] \notin {"perform_oauth_flow", "exchange_code", "store_authorized"}
        /\ (prompts[p] > 0 \/ exchanges[p] > 0
              \/ pc[p] \in {"perform_oauth_flow", "exchange_code", "store_authorized"})
           => flow_entered[p]

C6_Witness ==
    \E p \in Inst :
        /\ flow_entered[p] /\ refreshes[p] = 1 /\ exchanges[p] = 1
        /\ auth_result[p] = "authorized"

\* C7: in every run the credential file is read at most once and written
\* at most once; it is not touched before authenticate is called.
C7_FileAccessAtMostOnce ==
    \A p \in Inst :
        /\ reads[p] <= 1 /\ writes[p] <= 1
        /\ pc[p] \in {"main", "parse_duration", "load_oauth_config", "start_time",
                      "metadata", "generate_schedule", "apply_schedule", "dry_run",
                      "confirm", "new_uploader", "authenticate"}
           => reads[p] = 0 /\ writes[p] = 0
        /\ writes[p] <= refreshes[p] + exchanges[p]

C7_Witness ==
    \E p \in Inst :
        /\ pc[p] = "exit" /\ exit_status[p] = "ok"
        /\ reads[p] = 1 /\ writes[p] = 1
        /\ refreshes[p] = 1 /\ exchanges[p] = 1
        /\ Len(uploads[p]) = 2

(***************************************************************************)
(* Properties of generate_schedule                                         *)
(***************************************************************************)
\* the instants the timestamp type represents
Representable(t) == t >= 0 - MaxTimestamp /\ t <= MaxTimestamp

\* the anchor of a call without timestamp file
PlainAnchor(c) == IF c.start_time.some THEN c.start_time.v ELSE c.now + 3600

PlainCall(p) == sched_call[p].called /\ ~sched_call[p].timestamp_file.some

\* every entry a call is to produce is representable, and so is its
\* distance from the anchor
EntriesRepresentable(c, anchor) ==
    \A i \in 0..(c.video_count - 1) :
        /\ i * c.interval <= MaxDuration /\ i * c.interval >= 0 - MaxDuration
        /\ Representable(anchor + i * c.interval)

IsScheduleFrom(sched, c, anchor) ==
    /\ Len(sched) = c.video_count
    /\ \A i \in 0..(c.video_count - 1) : sched[i + 1] = anchor + i * c.interval

\* C8 as claimed: for every count, interval and anchor (no timestamp file)
\* generate_schedule returns exactly count entries, entry i being
\* anchor + i*interval.
C8_AsClaimed ==
    \A p \in Inst :
        PlainCall(p)
        => /\ schedule[p].status = "ok"
           /\ IsScheduleFrom(schedule[p].schedule, sched_call[p],
                             PlainAnchor(sched_call[p]))

\* C8: the same whenever every anchor + i*interval below count is a
\* representable timestamp; otherwise the call panics and returns nothing.
\* count = 0 gives the empty sequence and no error.
C8_ScheduleEntries ==
    \A p \in Inst :
        PlainCall(p)
        => LET c == sched_call[p]
               anchor == PlainAnchor(c)
           IN  IF EntriesRepresentable(c, anchor)
               THEN /\ schedule[p].status = "ok"
                    /\ IsScheduleFrom(schedule[p].schedule, c, anchor)
                    /\ c.video_count = 0 => schedule[p].schedule = <<>>
                    /\ pc[p] = "apply_schedule"
               ELSE /\ schedule[p].status = "panic"
                    /\ schedule[p].schedule = <<>>
                    /\ exit_status[p] = "panic"

C8_Witness ==
    \E p \in Inst :
        /\ PlainCall(p)
        /\ sched_call[p].video_count = 2
        /\ sched_call[p].interval = 60
        /\ sched_call[p].start_time = Some(7000)
        /\ schedule[p].schedule = <<7000, 7060>>

C8_WitnessEmpty ==
    \E p \in Inst :
        /\ PlainCall(p) /\ sched_call[p].video_count = 0
        /\ schedule[p].status = "ok" /\ schedule[p].schedule = <<>>

\* the epoch value a timestamp file holds: its content without the
\* surrounding whitespace, read as a decimal integer
FileEpoch(c) == parse_i64(trim(c.file.content)).v

\* C9: anchor precedence. The first entry of a returned schedule is the
\* epoch value of the timestamp file when a path is given, also when an
\* explicit start time is given too; else the explicit start time; and
\* now + 1 hour only when neither is given.
C9_AnchorPrecedence ==
    \A p \in Inst :
        (sched_call[p].called /\ schedule[p].status = "ok"
            /\ sched_call[p].video_count > 0)
        => LET c == sched_call[p]
               first == schedule[p].schedule[1]
           IN  /\ c.timestamp_file.some => c.file.ok /\ first = FileEpoch(c)
               /\ (~c.timestamp_file.some /\ c.start_time.some)
                  => first = c.start_time.v
               /\ (~c.timestamp_file.some /\ ~c.start_time.some)
                  => first = c.now + 3600

C9_Witness ==
    \E p \in Inst :
        /\ sched_call[p].called /\ schedule[p].status = "ok"
        /\ sched_call[p].timestamp_file.some
        /\ sched_call[p].start_time = Some(7000)
        /\ sched_call[p].file.content = <<" ", "6", "7">>
        /\ sched_call[p].video_count = 2 /\ sched_call[p].interval = 60
        /\ schedule[p].schedule = <<67, 127>>

\* a text that is a decimal integer: an optional sign and then digits only
IsIntegerText(s) ==
    /\ s # <<>>
    /\ LET body == IF s[1] \in {"+", "-"} THEN Tail(s) ELSE s
       IN  /\ body # <<>>
           /\ \A i \in 1..Len(body) :
                body[i] \in {"0", "1", "2", "3", "4", "5", "6", "7", "8", "9"}

\* the timestamp file of a call gives no timestamp: it cannot be read, or
\* its trimmed content is no integer, or the integer is no representable
\* timestamp
BadTimestampFile(c) ==
    \/ ~c.file.ok
    \/ ~IsIntegerText(trim(c.file.content))
    \/ ~parse_i64(trim(c.file.content)).ok
    \/ ~Representable(FileEpoch(c))

\* C10: with a timestamp-file path given and a file that gives no
\* timestamp, generate_schedule returns an error and no entries, whatever
\* the explicit start time: main ends with that error.
C10_BadTimestampFileIsError ==
    \A p \in Inst :
        (sched_call[p].called /\ sched_call[p].timestamp_file.some
            /\ BadTimestampFile(sched_call[p]))
        => /\ schedule[p].status = "err"
           /\ schedule[p].schedule = <<>>
           /\ pc[p] = "exit" /\ exit_status[p] = "error"

C10_Witness ==
    \E p \in Inst :
        /\ sched_call[p].called /\ sched_call[p].timestamp_file.some
        /\ sched_call[p].start_time = Some(7000)
        /\ sched_call[p].file.ok
        /\ sched_call[p].file.content = DecimalText(MaxTimestamp + 1)
        /\ schedule[p].status = "err"
        /\ schedule[p].err = "Invalid unix timestamp"

(***************************************************************************)
(* Properties of parse_duration                                            *)
(***************************************************************************)
\* the value of a text of decimal digits, and of an integer text
RECURSIVE DigitsValue(_)
DigitsValue(s) ==
    IF s = <<>> THEN 0
    ELSE 10 * DigitsValue(SubSeq(s, 1, Len(s) - 1))
         + (CHOOSE k \in 0..9 : DigitChars[k + 1] = s[Len(s)])

IntegerValue(s) ==
    IF s[1] = "-" THEN 0 - DigitsValue(Tail(s))
    ELSE IF s[1] = "+" THEN DigitsValue(Tail(s))
    ELSE DigitsValue(s)

\* str::to_uppercase and the lower-cased form, on the letters of the texts
UpperCased(s) ==
    [i \in 1..Len(s) |->
        IF \E k \in 1..Len(Lower) : Lower[k] = s[i]
        THEN Upper[CHOOSE k \in 1..Len(Lower) : Lower[k] = s[i]]
        ELSE s[i]]
LowerCased(s) ==
    [i \in 1..Len(s) |->
        IF \E k \in 1..Len(Upper) : Upper[k] = s[i]
        THEN Lower[CHOOSE k \in 1..Len(Upper) : Upper[k] = s[i]]
        ELSE s[i]]

UnitLetters == {"h", "m", "d"}
SecondsPer(u) == CASE u = "h" -> 3600 [] u = "m" -> 60 [] OTHER -> 86400

\* s is an integer followed by one unit letter; its integer and its unit
HasUnitForm(s) ==
    /\ Len(s) >= 2
    /\ s[Len(s)] \in UnitLetters
    /\ IsIntegerText(SubSeq(s, 1, Len(s) - 1))
UnitOf(s) == IF s # <<>> /\ s[Len(s)] \in UnitLetters THEN s[Len(s)] ELSE "h"
IntegerOf(s) ==
    IF s # <<>> /\ s[Len(s)] \in UnitLetters
    THEN IntegerValue(SubSeq(s, 1, Len(s) - 1))
    ELSE IntegerValue(s)

\* n units of per seconds are a value the Duration type holds
DurationHolds(n, per) ==
    n <= MaxDuration \div per /\ n >= 0 - (MaxDuration \div per)

\* the result is the Duration of n units of per seconds
IsDurationOf(result, n, per) ==
    /\ result.status = "ok"
    /\ DurationHolds(n, per)
    /\ result.v = n * per

\* the call gives the same result on the text in capitals and in small letters
CaseInsensitive(c) ==
    /\ parse_duration(UpperCased(c.text)) = c.result
    /\ parse_duration(LowerCased(c.text)) = c.result

\* C11 as claimed: parse_duration maps every integer n followed by h, m or
\* d (in either case) to n hours, minutes or days, every bare integer n to
\* n hours, and gives the same result on the upper-cased and lower-cased
\* form of any input.
C11_AsClaimed ==
    \A p \in Inst :
        parse_call[p].called
        => LET c == parse_call[p]
               l == LowerCased(c.text)
           IN  /\ (HasUnitForm(l) \/ IsIntegerText(l))
                  => IsDurationOf(c.result, IntegerOf(l), SecondsPer(UnitOf(l)))
               /\ CaseInsensitive(c)

\* C11: the same for every integer n whose n hours, minutes or days are a
\* value the Duration type holds; for an n beyond that parse_duration
\* panics (n within i64) or returns a parse error (n beyond i64).
C11_ParseDuration ==
    \A p \in Inst :
        parse_call[p].called
        => LET c == parse_call[p]
               l == LowerCased(c.text)
               n == IntegerOf(l)
               per == SecondsPer(UnitOf(l))
           IN  /\ (HasUnitForm(l) \/ IsIntegerText(l))
                  => IF DurationHolds(n, per)
                     THEN /\ IsDurationOf(c.result, n, per)
                          /\ interval[p] = n * per
                          /\ pc[p] = "load_oauth_config"
                     ELSE IF n <= MaxI64 /\ n >= 0 - (MaxI64 + 1)
                     THEN c.result.status = "panic" /\ exit_status[p] = "panic"
                     ELSE c.result.status = "err" /\ exit_status[p] = "error"
               /\ CaseInsensitive(c)

C11_Witness ==
    \E p \in Inst :
        /\ parse_call[p].called
        /\ parse_call[p].text = <<"3", "0", "M">>
        /\ parse_call[p].result = DurationOk(1800)
        /\ interval[p] = 1800

\* C12 as claimed: parse_duration succeeds exactly on the inputs whose
\* trimmed, lower-cased form is a signed integer optionally followed by one
\* unit letter h, m or d, and returns a parse error on every other input.
C12_SucceedsExactly ==
    \A p \in Inst :
        parse_call[p].called
        => LET c == parse_call[p]
               form == LowerCased(trim(c.text))
           IN  IF HasUnitForm(form) \/ IsIntegerText(form)
               THEN c.result.status = "ok"
               ELSE c.result.status = "err"

(***************************************************************************)
(* Properties of the run of main                                           *)
(***************************************************************************)
\* authenticate has returned Ok(()) to main
Authenticated(p) == auth_result[p] \in {"reused", "refreshed", "authorized"}

\* the run of instance p has gone through its upload loop to the end
LoopDone(p) == Authenticated(p) /\ pc[p] = "exit"

\* C13 as claimed: a run that reaches the upload loop with n video files
\* makes exactly n upload attempts, the i-th for the i-th video, one after
\* the other.
C13_OneAttemptPerVideo ==
    \A p \in Inst :
        /\ Authenticated(p)
           => /\ Len(uploads[p]) <= video_count[p]
              /\ \A i \in 1..Len(uploads[p]) : uploads[p][i].video = i
        /\ LoopDone(p) => Len(uploads[p]) = video_count[p]

\* an upload attempt of the run has failed
FailedAttempts(p) == {i \in 1..Len(uploads[p]) : uploads[p][i].outcome # "ok"}

\* the turns the loop takes: one for each video that has a metadata entry
LoopTurns(p) ==
    IF Len(metadata[p]) < video_count[p] THEN Len(metadata[p]) ELSE video_count[p]

ExchangeFailed(p) == exchanges[p] >= 1 /\ ~code_resp[p].ok

\* C15: a failed authorization-code exchange is fatal. authenticate has
\* returned an error and the run has ended with it; the exchange was sent
\* once and the code asked once, no token is active, the credential file
\* was not written and no upload attempt was made.
C15_ExchangeFailureFatal ==
    \A p \in Inst :
        ExchangeFailed(p)
        => /\ flow_entered[p]
           /\ auth_result[p] = "error"
           /\ pc[p] = "exit" /\ exit_status[p] = "error"
           /\ exchanges[p] = 1 /\ prompts[p] = 1
           /\ access_token[p] = ""
           /\ writes[p] = 0 /\ last_write[p] = "none"
           /\ tokens[p].ok => credFile = FileOf(tokens[p].tokens)
           /\ uploads[p] = <<>>

C15_Witness ==
    \E p \in Inst :
        /\ ExchangeFailed(p)
        /\ refreshes[p] = 1 /\ refresh_resp[p].net = "error"
        /\ credFile.kind = "tokens"
        /\ pc[p] = "exit" /\ uploads[p] = <<>>

\* the credential a successful authorization-code exchange is to leave in
\* the file
AuthorizedCredential(p) ==
    FileOf([access_token |-> code_resp[p].access_token,
            refresh_token |-> code_resp[p].refresh_token,
            expires_at |-> IF code_resp[p].expires_in.some
                           THEN Some(token_now[p] + code_resp[p].expires_in.v)
                           ELSE NoneI])

\* C16: after an authorization-code exchange that returned access token A,
\* with or without refresh token R and expires_in E, and a store write that
\* succeeded, the credential file holds {A, R or none, now + E or none},
\* the active access token is A and authenticate has returned success.
C16_FlowSuccess ==
    \A p \in Inst :
        (exchanges[p] = 1 /\ code_resp[p].ok /\ last_write[p] = "ok")
        => /\ auth_result[p] = "authorized"
           /\ exit_status[p] = "running"
           /\ access_token[p] = code_resp[p].access_token
           /\ access_token[p] = "granted"
           /\ credFile = AuthorizedCredential(p)
           /\ ~code_resp[p].refresh_token.some
              => ~credFile.tokens.refresh_token.some
           /\ ~code_resp[p].expires_in.some
              => ~credFile.tokens.expires_at.some

C16_Witness ==
    \E p \in Inst :
        /\ exchanges[p] = 1 /\ code_resp[p].ok /\ last_write[p] = "ok"
        /\ code_resp[p].refresh_token = NoneS /\ code_resp[p].expires_in = NoneI
        /\ refreshes[p] = 1
        /\ auth_result[p] = "authorized"
        /\ credFile = FileOf([access_token |-> "granted", refresh_token |-> NoneS,
                              expires_at |-> NoneI])

\* authenticate was called in the run of instance p
AuthStarted(p) ==
    \/ pc[p] \in {"authenticate", "refresh_token", "store_refreshed",
                  "perform_oauth_flow", "exchange_code", "store_authorized",
                  "upload"}
    \/ auth_result[p] # "none"
    \/ reads[p] > 0

\* duration parsing or schedule generation of the run failed
ScheduleStepFailed(p) ==
    \/ parse_call[p].called /\ parse_call[p].result.status # "ok"
    \/ schedule[p].status \in {"err", "panic"}

\* C17: run ordering. authenticate starts only after parse_duration and
\* generate_schedule have returned their values; an upload attempt is made
\* only after authenticate has returned success; and a run whose duration
\* parsing or schedule generation failed has ended there, without a read or
\* write of the credential file, a refresh, a code exchange, a prompt or an
\* upload attempt.
C17_RunOrdering ==
    \A p \in Inst :
        /\ AuthStarted(p)
           => /\ parse_call[p].called /\ parse_call[p].result.status = "ok"
              /\ sched_call[p].called /\ schedule[p].status = "ok"
              /\ Len(schedule[p].schedule) = video_count[p]
        /\ (uploads[p] # <<>> \/ pc[p] = "upload") => Authenticated(p)
        /\ ~Authenticated(p) => uploads[p] = <<>>
        /\ ScheduleStepFailed(p)
           => /\ pc[p] = "exit" /\ exit_status[p] \in {"error", "panic"}
              /\ ~AuthStarted(p)
              /\ reads[p] = 0 /\ writes[p] = 0
              /\ refreshes[p] = 0 /\ exchanges[p] = 0 /\ prompts[p] = 0
              /\ ~flow_entered[p]
              /\ access_token[p] = ""
              /\ uploads[p] = <<>>

C17_Witness ==
    \E p \in Inst :
        /\ schedule[p].status = "ok" /\ Len(schedule[p].schedule) = 2
        /\ auth_result[p] = "refreshed"
        /\ Len(uploads[p]) = 1 /\ pc[p] = "upload"

C17_WitnessAbort ==
    \E p \in Inst :
        /\ parse_call[p].called /\ parse_call[p].result.status = "ok"
        /\ schedule[p].status = "err"
        /\ pc[p] = "exit" /\ exit_status[p] = "error" /\ reads[p] = 0

\* instance p's load of the credential file failed
LoadFailed(p) == reads[p] = 1 /\ ~tokens[p].ok

\* C18: after a failed load (file missing, unreadable or malformed)
\* authenticate stands in the interactive flow: no refresh was sent, and at
\* the call of perform_oauth_flow nothing was returned, activated or
\* written; an error return comes only later, from the flow.
C18_LoadFailureEntersFlow ==
    \A p \in Inst :
        /\ LoadFailed(p)
           => /\ flow_entered[p]
              /\ refreshes[p] = 0
              /\ pc[p] \in {"perform_oauth_flow", "exchange_code",
                            "store_authorized", "upload", "exit"}
              /\ auth_result[p] \in {"none", "authorized", "error"}
              /\ pc[p] = "perform_oauth_flow"
                 => /\ auth_result[p] = "none" /\ exit_status[p] = "running"
                    /\ prompts[p] = 0 /\ writes[p] = 0
                    /\ access_token[p] = ""
              /\ auth_result[p] = "error" => prompts[p] = 1
        /\ (reads[p] = 1 /\ writes[p] = 0 /\ credFile.kind \in {"missing", "malformed"})
           => LoadFailed(p)

C18_Witness ==
    \E p \in Inst :
        /\ LoadFailed(p)
        /\ credFile.kind = "tokens"
        /\ credFile.tokens.refresh_token.some
        /\ credFile.tokens.expires_at = Some(302)
        /\ pc[p] = "exchange_code"

\* C19: reuse if and only if the reuse condition holds. authenticate
\* returns with the stored access token adopted exactly when the load
\* succeeded and expires_at is present and strictly later than now + 5
\* minutes; with expires_at absent, earlier than or equal to now + 5
\* minutes the stored token is never the active one, and a token is active
\* only after reuse, a refresh or a code exchange.
C19_ReuseIffValid ==
    \A p \in Inst :
        LET stored == tokens[p].tokens
            valid == /\ reads[p] = 1 /\ tokens[p].ok
                     /\ stored.expires_at.some
                     /\ stored.expires_at.v > check_now[p] + 300
        IN  /\ auth_result[p] = "reused" <=> valid
            /\ valid => access_token[p] = stored.access_token
            /\ (reads[p] = 1 /\ ~valid)
               => /\ access_token[p] # "stored"
                  /\ pc[p] # "authenticate"
                  /\ access_token[p] # "" => refreshes[p] = 1 \/ exchanges[p] = 1
            /\ reads[p] = 0 => access_token[p] = ""

C19_Witness ==
    \E p \in Inst :
        /\ reads[p] = 1 /\ tokens[p].ok
        /\ check_now[p] = 1
        /\ tokens[p].tokens.expires_at = Some(check_now[p] + 300)
        /\ pc[p] = "refresh_token"
        /\ access_token[p] = ""

\* C20: no step is retried. In every run at most one refresh exchange and
\* at most one authorization-code exchange are sent and at most one
\* authorization code is asked, whatever fails.
C20_NoRetry ==
    \A p \in Inst :
        /\ refreshes[p] <= 1
        /\ exchanges[p] <= 1
        /\ prompts[p] <= 1
        /\ exchanges[p] <= prompts[p]

C20_Witness ==
    \E p \in Inst :
        /\ refreshes[p] = 1 /\ prompts[p] = 1 /\ exchanges[p] = 1
        /\ ~AnswerHasToken(refresh_resp[p])
        /\ code_resp[p].ok /\ last_write[p] = "write_failed"
        /\ pc[p] = "exit" /\ exit_status[p] = "error"

(***************************************************************************)
(* Properties of the stamped metadata and of the upload requests           *)
(***************************************************************************)
\* the anchor of a generate_schedule call, from its arguments
CallAnchor(c) == IF c.timestamp_file.some THEN FileEpoch(c) ELSE PlainAnchor(c)

\* the run of instance p is past the stamping of its metadata
Stamped(p) ==
    \/ pc[p] \in {"dry_run", "confirm", "new_uploader", "authenticate",
                  "refresh_token", "store_refreshed", "perform_oauth_flow",
                  "exchange_code", "store_authorized", "upload"}
    \/ pc[p] = "exit" /\ schedule[p].status = "ok"

\* the publish time a metadata entry or an upload request carries: the
\* instant, written at offset +00:00
PublishAt(t) == [some |-> TRUE, v |-> [secs |-> t, offset |-> "+00:00"]]

StampedAsScheduled ==
    \A p \in Inst :
        /\ Stamped(p)
           => /\ schedule[p].status = "ok"
              /\ Len(schedule[p].schedule) = video_count[p]
              /\ \A i \in 1..Len(metadata[p]) :
                    i <= video_count[p]
                    => /\ metadata[p][i].scheduled_start_time
                            = PublishAt(schedule[p].schedule[i])
                       /\ metadata[p][i].privacy_status = "private"
        /\ \A i \in 1..Len(uploads[p]) :
              /\ Stamped(p)
              /\ uploads[p][i].video = i /\ i <= video_count[p]
              /\ uploads[p][i].privacy_status = "private"
              /\ uploads[p][i].publish_at
                    = PublishAt(CallAnchor(sched_call[p])
                                + (i - 1) * sched_call[p].interval)

ScheduleFrozen ==
    \A p \in Inst :
        schedule[p].status # "none"
        => /\ schedule'[p] = schedule[p]
           /\ sched_call'[p] = sched_call[p]
           /\ Stamped(p) => metadata'[p] = metadata[p]

\* C21: schedule stamping. Once generate_schedule has returned, the
\* schedule is never changed; from the stamping on, every metadata entry
\* within the video count carries the publish time schedule[i] and
\* privacy_status private and is not changed either; and every upload
\* attempt i carries the publish time anchor + i*interval (i from 0).
C21_ScheduleStamping == [](StampedAsScheduled) /\ [][ScheduleFrozen]_vars

C21_Witness ==
    \E p \in Inst :
        /\ sched_call[p].interval = 7200 /\ sched_call[p].start_time = Some(7000)
        /\ ~sched_call[p].timestamp_file.some
        /\ Len(uploads[p]) = 2
        /\ uploads[p][2].publish_at = PublishAt(14200)
        /\ uploads[p][2].privacy_status = "private"

(***************************************************************************)
(* Properties of the credential file                                       *)
(***************************************************************************)
\* instance p stands right after a successful refresh or code exchange,
\* before the store of the credential it built
AfterExchange(p) ==
    \/ pc[p] = "store_refreshed" /\ AnswerHasToken(refresh_resp[p])
    \/ pc[p] = "store_authorized" /\ code_resp[p].ok

\* C22 as claimed: the credential file changes only by being overwritten
\* with the complete new credential after a successful refresh or
\* authorization-code exchange; every other step (reuse, failed refresh,
\* failed code exchange) leaves its content as it was, and no step deletes
\* it.
C22_OnlyOverwritten ==
    [][/\ credFile' # credFile
          => \E p \in Inst :
                /\ AfterExchange(p)
                /\ new_tokens[p].access_token # ""
                /\ credFile' = FileOf(new_tokens[p])
       /\ credFile'.kind = "missing" => credFile.kind = "missing"]_vars

\* C23: in a run of one process, whenever authenticate has returned
\* success (by reuse, refresh or full authorization) the credential file
\* holds a credential whose access_token is the active access token, from
\* the return to the end of the run.
C23_ActiveTokenIsStored ==
    \A p \in Inst :
        Authenticated(p)
        => /\ credFile.kind = "tokens"
           /\ credFile.tokens.access_token = access_token[p]
           /\ access_token[p] # ""
           /\ auth_result[p] = "reused" => access_token[p] = "stored"
           /\ auth_result[p] = "refreshed"
              => access_token[p] = refresh_resp[p].access_token.s
           /\ auth_result[p] = "authorized"
              => access_token[p] = code_resp[p].access_token

C23_Witness ==
    \E p \in Inst :
        /\ auth_result[p] = "authorized"
        /\ tokens[p].ok /\ tokens[p].tokens.access_token = "stored"
        /\ refreshes[p] = 1
        /\ credFile.tokens.access_token = "granted"
        /\ access_token[p] = "granted"
        /\ pc[p] = "exit" /\ Len(uploads[p]) = 1

\* the access token of instance p stays as it is
TokenKept(p) == access_token'[p] = access_token[p]

\* C24: no upload attempt is made unless authenticate has returned success
\* before it in the run; from that return to the end of the run the active
\* access token is not modified, and every upload request of the run
\* carries it: no step authenticates or refreshes among the uploads.
C24_OneTokenPerRun ==
    /\ [](\A p \in Inst :
            /\ uploads[p] # <<>> => Authenticated(p)
            /\ \A i \in 1..Len(uploads[p]) :
                  /\ uploads[p][i].token = access_token[p]
                  /\ uploads[p][i].token # ""
            /\ (pc[p] = "upload" \/ uploads[p] # <<>>)
               => /\ Authenticated(p)
                  /\ refreshes[p] + exchanges[p] <= 2
                  /\ pc[p] \in {"upload", "exit"})
    /\ [][\A p \in Inst :
            /\ Authenticated(p)
               => /\ TokenKept(p)
                  /\ auth_result'[p] = auth_result[p]
                  /\ refreshes'[p] = refreshes[p]
                  /\ exchanges'[p] = exchanges[p]
                  /\ reads'[p] = reads[p] /\ writes'[p] = writes[p]
            /\ uploads'[p] # uploads[p] => Authenticated(p)]_vars

C24_Witness ==
    \E p \in Inst :
        /\ auth_result[p] = "refreshed"
        /\ Len(uploads[p]) = 2
        /\ uploads[p][1].token = "fresh" /\ uploads[p][2].token = "fresh"
        /\ uploads[p][1].outcome = "send_failed"
        /\ pc[p] = "exit"

\* the first character of the answer that is no whitespace, in small
\* letters, is y
StartsWithY(line) ==
    \E k \in 1..Len(line) :
        /\ line[k] \in {"y", "Y"}
        /\ \A j \in 1..(k - 1) : line[j] \in {" ", "\t", "\n", "\r"}

\* the run of instance p was a dry run, or its operator declined
NotToProceed(p) ==
    \/ dry_run[p] = Some(TRUE)
    \/ input[p].some /\ ~StartsWithY(input[p].v)

\* C25: a dry run, and a run whose confirmation answer, with the
\* whitespace around it removed, does not start with y or Y, has ended with
\* a success exit after the schedule was generated: without a read or write
\* of the credential file, a refresh, a code exchange, a prompt for a code
\* or an upload attempt. A dry run is not asked for confirmation.
C25_NoProceedNoEffects ==
    \A p \in Inst :
        /\ NotToProceed(p)
           => /\ pc[p] = "exit" /\ exit_status[p] = "ok"
              /\ schedule[p].status = "ok"
              /\ reads[p] = 0 /\ writes[p] = 0
              /\ refreshes[p] = 0 /\ exchanges[p] = 0 /\ prompts[p] = 0
              /\ ~flow_entered[p] /\ auth_result[p] = "none"
              /\ access_token[p] = ""
              /\ uploads[p] = <<>>
        /\ dry_run[p] = Some(TRUE) => ~input[p].some
        /\ AuthStarted(p)
           => /\ dry_run[p] = Some(FALSE)
              /\ input[p].some /\ StartsWithY(input[p].v)

C25_Witness ==
    \E p \in Inst :
        /\ dry_run[p] = Some(FALSE)
        /\ input[p] = Some(<<"\n">>)
        /\ video_count[p] = 2 /\ Len(schedule[p].schedule) = 2
        /\ pc[p] = "exit" /\ exit_status[p] = "ok"
        /\ reads[p] = 0 /\ uploads[p] = <<>>

C25_WitnessDryRun ==
    \E p \in Inst :
        /\ dry_run[p] = Some(TRUE)
        /\ pc[p] = "exit" /\ exit_status[p] = "ok" /\ reads[p] = 0

\* C25 as claimed: a dry run, and a run whose confirmation answer as it
\* was typed does not start with y or Y, ends without a read or write of
\* the credential file, a token exchange or an upload attempt.
C25_AsClaimed ==
    \A p \in Inst :
        (\/ dry_run[p] = Some(TRUE)
         \/ input[p].some /\ ~(input[p].v # <<>> /\ input[p].v[1] \in {"y", "Y"}))
        => /\ pc[p] = "exit" /\ exit_status[p] = "ok"
           /\ reads[p] = 0 /\ writes[p] = 0
           /\ refreshes[p] = 0 /\ exchanges[p] = 0
           /\ uploads[p] = <<>>

(***************************************************************************)
(* Properties of concurrent instances                                      *)
(***************************************************************************)
\* instance p is inside authenticate, between its load and its return
InAuthenticate(p) ==
    pc[p] \in {"refresh_token", "store_refreshed", "perform_oauth_flow",
               "exchange_code", "store_authorized"}

\* both instances loaded the same expiring credential, both had a refresh
\* granted and both wrote the file; instance p's active token is not the
\* one the file holds at the end
LostUpdate(p, q) ==
    /\ p # q
    /\ tokens[p].ok /\ tokens[q].ok /\ tokens[p] = tokens[q]
    /\ tokens[p].tokens.refresh_token.some
    /\ refreshes[p] = 1 /\ refreshes[q] = 1
    /\ writes[p] = 1 /\ writes[q] = 1
    /\ last_write[p] = "ok" /\ last_write[q] = "ok"
    /\ auth_result[p] = "refreshed" /\ auth_result[q] = "refreshed"
    /\ credFile = FileOf(new_tokens[q])
    /\ access_token[p] # credFile.tokens.access_token

\* C26: access to the credential file is not serialized between
\* instances. While one instance is inside authenticate, another that is
\* about to load or to store is never held back; an instance that has
\* returned success with a token other than the stored one was overwritten
\* by another instance's write. Two instances can so both load the same
\* expiring credential, both refresh and both write, the later write
\* replacing the earlier one (C26_Witness).
C26_NotSerialized ==
    \A p \in Inst : \A q \in Inst \ {p} :
        /\ (InAuthenticate(p) /\ pc[q] = "authenticate") => ENABLED LoadTokens(q)
        /\ (InAuthenticate(p) /\ pc[q] = "store_refreshed") => ENABLED StoreRefreshed(q)
        /\ (Authenticated(p) /\ writes[p] = 1 /\ last_write[p] = "ok"
              /\ credFile # FileOf(new_tokens[p]))
           => \E r \in Inst \ {p} : writes[r] = 1
        /\ (writes[p] = 1 /\ writes[q] = 1
              /\ last_write[p] = "ok" /\ last_write[q] = "ok")
           => credFile \in {FileOf(new_tokens[p]), FileOf(new_tokens[q])}

C26_Witness ==
    /\ LostUpdate(1, 2)
    /\ access_token[1] = "fresh" /\ access_token[2] = "fresher"
    /\ credFile.tokens.access_token = "fresher"

(***************************************************************************)
(* Termination                                                             *)
(***************************************************************************)
AuthOutcomes == {"reused", "refreshed", "authorized", "error"}

\* what holds of the outcome of authenticate and of the upload loop in
\* every state
BoundedRun ==
    \A p \in Inst :
        /\ auth_result[p] \in AuthOutcomes \cup {"none"}
        /\ Len(uploads[p]) <= video_count[p]
        /\ video_count[p] <= MaxVideos
        /\ (pc[p] \in {"upload", "exit"} /\ reads[p] > 0)
           => auth_result[p] \in AuthOutcomes
        /\ pc[p] = "exit" => exit_status[p] # "running"
        /\ pc[p] # "exit" => exit_status[p] = "running"

\* an outcome of authenticate, once reached, is the only one; a run that
\* has ended takes no further step
OutcomeKept ==
    \A p \in Inst :
        /\ auth_result[p] # "none" => auth_result'[p] = auth_result[p]
        /\ pc[p] = "exit"
           => /\ pc'[p] = "exit" /\ exit_status'[p] = exit_status[p]
              /\ uploads'[p] = uploads[p]

\* C27: with every blocking operation returning, every run ends: main
\* reaches its exit; authenticate, when it is called, reaches exactly one
\* of reused, refreshed, authorized and error and keeps it; and the upload
\* loop makes no more attempts than there are input videos.
C27_Termination ==
    /\ \A p \in Inst : (pc[p] # "off") ~> (pc[p] = "exit")
    /\ \A p \in Inst : (pc[p] = "authenticate") ~> (auth_result[p] \in AuthOutcomes)
    /\ []BoundedRun
    /\ [][OutcomeKept]_vars

C27_Witness ==
    \E p \in Inst :
        /\ pc[p] = "exit" /\ exit_status[p] = "ok"
        /\ auth_result[p] = "authorized" /\ refreshes[p] = 1
        /\ video_count[p] = 2 /\ Len(uploads[p]) = 2
        /\ uploads[p][2].outcome = "ok"

====
